---- MODULE Spec2Model ----
(***************************************************************************)
(* Model of src/rest.py: the Enrich.POST request pipeline of the haello    *)
(* REST service (web.py handler, Python 2).                                *)
(*                                                                         *)
(* Strings are modelled as Python 2 strings are: finite sequences of       *)
(* character codes (0..255 for str, code points for the unicode values     *)
(* web.input returns).  None is the one-element sequence <<-1>>, which no  *)
(* string can equal.  Conversions (str(), lower(), base64.b64decode,       *)
(* string concatenation, the UTF-8 decoding json.dumps performs) are       *)
(* computed on those sequences.                                            *)
(*                                                                         *)
(* The external collaborators (the file system, PIL/pytesseract, goslate)  *)
(* answer nondeterministically from small sets of results.                 *)
(***************************************************************************)
EXTENDS Integers, Sequences, FiniteSets, TLC

\* ------------------------------------------------------------------------
\* Bounds of the model
\* ------------------------------------------------------------------------

\* number of request slots (worker threads) of the server
NumProcs == 2

\* number of distinct identifiers uuid.uuid4() can draw from
NumUUIDs == 2

Procs == 1 .. NumProcs

UUIDs == 1 .. NumUUIDs

\* ------------------------------------------------------------------------
\* Python values
\* ------------------------------------------------------------------------

None == << -1 >>

EmptyStr == << >>

\* 'en', 'de', 'it', 'fr', 'es', 'sv' and two codes outside both tables
en == <<101, 110>>

de == <<100, 101>>

it == <<105, 116>>

fr == <<102, 114>>

es == <<101, 115>>

sv == <<115, 118>>

ja == <<106, 97>>

xx == <<120, 120>>

\* 'EN', 'DE': upper-case spellings a caller may send
EN_upper == <<69, 78>>

DE_upper == <<68, 69>>

\* u'\xe9': a unicode value str() cannot encode as ASCII
e_acute == <<233>>

\* tesseract identifiers 'eng', 'deu', 'ita', 'fra', 'spa', 'swe'
eng == <<101, 110, 103>>

deu == <<100, 101, 117>>

ita == <<105, 116, 97>>

fra == <<102, 114, 97>>

spa == <<115, 112, 97>>

swe == <<115, 119, 101>>

\* 'jpg', 'JPG', 'png'
jpg == <<106, 112, 103>>

JPG_upper == <<74, 80, 71>>

png == <<112, 110, 103>>

\* 'unk', 'Unknown', 'detected:'
unk == <<117, 110, 107>>

Unknown == <<85, 110, 107, 110, 111, 119, 110>>

detected_prefix == <<100, 101, 116, 101, 99, 116, 101, 100, 58>>

\* 'uploads'
image_dir == <<117, 112, 108, 111, 97, 100, 115>>

\* rest.py:32
supported_filetypes == {jpg}

\* rest.py:34
supported_languages == {en, de, it}

\* rest.py:35-40
supported_languages_tesseract ==
    (en :> eng) @@ (de :> deu) @@ (it :> ita) @@
    (fr :> fra) @@ (es :> spa) @@ (sv :> swe)

\* the dict goslate's get_languages() returns (code -> English name),
\* restricted to the codes the model uses: 'English', 'German', 'Italian',
\* 'French', 'Spanish', 'Swedish', 'Japanese'
gs_languages ==
    (en :> <<69, 110, 103, 108, 105, 115, 104>>) @@
    (de :> <<71, 101, 114, 109, 97, 110>>) @@
    (it :> <<73, 116, 97, 108, 105, 97, 110>>) @@
    (fr :> <<70, 114, 101, 110, 99, 104>>) @@
    (es :> <<83, 112, 97, 110, 105, 115, 104>>) @@
    (sv :> <<83, 119, 101, 100, 105, 115, 104>>) @@
    (ja :> <<74, 97, 112, 97, 110, 101, 115, 101>>)

\* ------------------------------------------------------------------------
\* Conversions
\* ------------------------------------------------------------------------

\* str(u) of a unicode value (Python 2): the same characters when all are
\* ASCII, UnicodeEncodeError otherwise.
StrRaises(u) == \E k \in 1 .. Len(u) : u[k] > 127

\* str.lower(): 'A'..'Z' become 'a'..'z', every other character is kept.
LowerChar(c) == IF c >= 65 /\ c <= 90 THEN c + 32 ELSE c

Lower(s) == [k \in 1 .. Len(s) |-> LowerChar(s[k])]

\* table_a2b_base64 of binascii: the 6-bit value of a base64 character,
\* 0 for the pad '=', -1 for a character outside the alphabet.
B64Val(c) ==
    IF c >= 65 /\ c <= 90 THEN c - 65
    ELSE IF c >= 97 /\ c <= 122 THEN c - 71
    ELSE IF c >= 48 /\ c <= 57 THEN c + 4
    ELSE IF c = 43 THEN 62
    ELSE IF c = 47 THEN 63
    ELSE IF c = 61 THEN 0
    ELSE -1

Pow2(n) == IF n = 0 THEN 1 ELSE IF n = 2 THEN 4 ELSE IF n = 4 THEN 16
           ELSE IF n = 6 THEN 64 ELSE 256

\* binascii_find_valid(s + k - 1, ..., num): the character that is the
\* (num+1)th valid base64 character of s from position k on, or -1.
RECURSIVE B64FindValid(_, _, _)
B64FindValid(s, k, num) ==
    IF k > Len(s) THEN -1
    ELSE IF s[k] <= 127 /\ B64Val(s[k]) # -1
         THEN IF num = 0 THEN s[k] ELSE B64FindValid(s, k + 1, num - 1)
         ELSE B64FindValid(s, k + 1, num)

\* binascii.a2b_base64: the decoding loop.  The state is the position k,
\* quad_pos, leftchar, leftbits and the bytes produced so far; the result is
\* [out, leftbits] at the end of the input or at an accepted pad sequence.
RECURSIVE B64Loop(_, _, _, _, _, _)
B64Loop(s, k, quad_pos, leftchar, leftbits, out) ==
    IF k > Len(s) THEN [out |-> out, leftbits |-> leftbits]
    ELSE LET c == s[k] IN
         IF c > 127 \/ c = 13 \/ c = 10 \/ c = 32
         THEN B64Loop(s, k + 1, quad_pos, leftchar, leftbits, out)
         ELSE IF c = 61
         THEN IF quad_pos < 2 \/ (quad_pos = 2 /\ B64FindValid(s, k, 1) # 61)
              THEN B64Loop(s, k + 1, quad_pos, leftchar, leftbits, out)
              ELSE [out |-> out, leftbits |-> 0]
         ELSE IF B64Val(c) = -1
         THEN B64Loop(s, k + 1, quad_pos, leftchar, leftbits, out)
         ELSE LET lc == leftchar * 64 + B64Val(c)
                  lb == leftbits + 6
                  qp == (quad_pos + 1) % 4
              IN IF lb >= 8
                 THEN B64Loop(s, k + 1, qp, lc % Pow2(lb - 8), lb - 8,
                              Append(out, (lc \div Pow2(lb - 8)) % 256))
                 ELSE B64Loop(s, k + 1, qp, lc, lb, out)

\* base64.b64decode(s): TypeError ("Incorrect padding") when bits are left
\* over, the decoded bytes otherwise.
B64Raises(s) == B64Loop(s, 1, 0, 0, 0, << >>).leftbits # 0

b64decode(s) == B64Loop(s, 1, 0, 0, 0, << >>).out

\* json.dumps decodes every str of the dict as UTF-8 and raises
\* UnicodeDecodeError on an ill-formed sequence.
IsCont(s, k) == k <= Len(s) /\ s[k] >= 128 /\ s[k] <= 191

RECURSIVE Utf8From(_, _)
Utf8From(s, k) ==
    IF k > Len(s) THEN TRUE
    ELSE IF s[k] < 128 THEN Utf8From(s, k + 1)
    ELSE IF s[k] >= 194 /\ s[k] <= 223
         THEN IsCont(s, k + 1) /\ Utf8From(s, k + 2)
    ELSE IF s[k] >= 224 /\ s[k] <= 239
         THEN IsCont(s, k + 1) /\ IsCont(s, k + 2) /\ Utf8From(s, k + 3)
    ELSE IF s[k] >= 240 /\ s[k] <= 244
         THEN IsCont(s, k + 1) /\ IsCont(s, k + 2) /\ IsCont(s, k + 3)
              /\ Utf8From(s, k + 4)
    ELSE FALSE

IsUtf8(s) == Utf8From(s, 1)

\* ------------------------------------------------------------------------
\* Results of calls
\* ------------------------------------------------------------------------

\* a returned value
Ok(v) == [ok |-> TRUE, val |-> v, status |-> 200, msg |-> ""]

\* a raised web.HTTPError with its status and message
Raise(status, msg) == [ok |-> FALSE, val |-> None, status |-> status, msg |-> msg]

\* an exception no handler catches: web.py answers 500 internal server error
Unhandled == Raise(500, "internal server error")

\* no exception is pending
NoExc == [ok |-> TRUE, val |-> None, status |-> 0, msg |-> ""]

\* answer of a collaborator that was not consulted
NotCalled == [k |-> "not_called", v |-> None]

NoBody == [detected |-> None, text |-> None, translation |-> None]

NoResponse == [status |-> 0, msg |-> "", body |-> NoBody]

\* ------------------------------------------------------------------------
\* Requests and collaborator answers the model draws from
\* ------------------------------------------------------------------------

\* bytes of an uploaded file and its file name 'a.jpg'
JpegBytes == <<255, 216, 255>>

FileName == <<97, 46, 106, 112, 103>>

\* web.input(image={}): without an image field data.image is the default {}
NoImage == [present |-> FALSE, value |-> None, filename |-> None]

Images ==
    { NoImage,
      [present |-> TRUE, value |-> EmptyStr, filename |-> FileName],
      [present |-> TRUE, value |-> JpegBytes, filename |-> EmptyStr],
      [present |-> TRUE, value |-> JpegBytes, filename |-> FileName] }

Filetypes == {None, jpg, JPG_upper, png, e_acute}

\* 'SGk=' (base64 of 'Hi'), 'SGk' (padding missing), '/w==' (base64 of the
\* byte 0xFF, which is not UTF-8)
B64Hi == <<83, 71, 107, 61>>

B64NoPad == <<83, 71, 107>>

B64xFF == <<47, 119, 61, 61>>

Texts == {None, EmptyStr, B64Hi, B64NoPad, B64xFF}

Sources == {None, en, de, it, EN_upper, fr, e_acute}

Targets == {None, en, de, it, DE_upper, fr, e_acute}

Requests ==
    [image : Images, filetype : Filetypes, text : Texts,
     source : Sources, target : Targets]

NoRequest ==
    [image |-> NoImage, filetype |-> None, text |-> None,
     source |-> None, target |-> None]

\* texts the OCR engine may return: '', 'Hi', 'Ha'
OcrHi == <<72, 105>>

OcrHa == <<72, 97>>

OcrAnswers ==
    { [k |-> "open_raise", v |-> None], [k |-> "engine_raise", v |-> None],
      [k |-> "text", v |-> EmptyStr], [k |-> "text", v |-> OcrHi],
      [k |-> "text", v |-> OcrHa] }

\* gs.detect: raises, returns None, or returns a code
DetectAnswers ==
    { [k |-> "raise", v |-> None], [k |-> "none", v |-> None],
      [k |-> "code", v |-> en], [k |-> "code", v |-> de],
      [k |-> "code", v |-> it], [k |-> "code", v |-> fr],
      [k |-> "code", v |-> es], [k |-> "code", v |-> sv],
      [k |-> "code", v |-> ja], [k |-> "code", v |-> xx] }

\* gs.get_languages: raises or returns the dict
NameAnswers == { [k |-> "raise", v |-> None], [k |-> "dict", v |-> None] }

\* gs.translate: raises, returns '' or returns 'Ho'
Translated == <<72, 111>>

TranslateAnswers ==
    { [k |-> "raise", v |-> None], [k |-> "text", v |-> EmptyStr],
      [k |-> "text", v |-> Translated] }

\* open/write/close of the upload: all succeed, or one of them fails and
\* leaves no file, a truncated file or the complete file behind
StoreAnswers == {"stored", "failed_no_file", "failed_truncated", "failed_complete"}

\* ------------------------------------------------------------------------
\* The static methods of Enrich
\* ------------------------------------------------------------------------

IsBlank(s) == s = None \/ Len(s) = 0

\* get_text with the emptiness test of line 233 written as len(text) < 0
get_text_emptyAccepted(image_path, hint, ocr) ==
    IF IsBlank(image_path) THEN Raise(500, "Path to image is not valid.")
    ELSE IF ocr.k = "open_raise" THEN Raise(500, "Could not open image.")
    ELSE IF ocr.k = "engine_raise"
         THEN Raise(500, "Could not extract text from image.")
    ELSE IF Len(ocr.v) < 0 THEN Raise(404, "No text detected in image.")
    ELSE Ok(ocr.v)

\* Enrich.get_text; ocr is the answer of Image.open and image_to_string
get_text(image_path, hint, ocr) ==
    IF IsBlank(image_path) THEN Raise(500, "Path to image is not valid.")
    ELSE IF ocr.k = "open_raise" THEN Raise(500, "Could not open image.")
    ELSE IF ocr.k = "engine_raise"
         THEN Raise(500, "Could not extract text from image.")
    ELSE IF Len(ocr.v) <= 0 THEN Raise(404, "No text detected in image.")
    ELSE Ok(ocr.v)

\* get_translation answering a failure of gs.translate with the untranslated
\* text instead of the 500 of lines 274-276
get_translation_swallows(text, target, source, gs) ==
    IF IsBlank(text) THEN Raise(500, "No text specified.")
    ELSE IF IsBlank(target) THEN Raise(500, "Target language is not valid.")
    ELSE IF gs.k = "raise" THEN Ok(text)
    ELSE Ok(gs.v)

\* Enrich.get_translation; gs is the answer of gs.translate
get_translation(text, target, source, gs) ==
    IF IsBlank(text) THEN Raise(500, "No text specified.")
    ELSE IF IsBlank(target) THEN Raise(500, "Target language is not valid.")
    ELSE IF gs.k = "raise" THEN Raise(500, "Could not translate image.")
    ELSE Ok(gs.v)

\* Enrich.get_language; gs is the answer of gs.detect (not guarded by a try)
get_language(text, gs) ==
    IF IsBlank(text) THEN Raise(500, "No text specified.")
    ELSE IF gs.k = "raise" THEN Unhandled
    ELSE IF gs.k = "none" THEN Ok(unk)
    ELSE Ok(gs.v)

\* get_language_name returning the bare name of line 333, without 'detected:',
\* and the code itself where the dict has no name
get_language_name_rawCode(language, gs) ==
    IF IsBlank(language) THEN Raise(500, "No language specified.")
    ELSE IF gs.k = "raise" THEN Unhandled
    ELSE IF language \in DOMAIN gs_languages
         THEN Ok(gs_languages[language])
    ELSE Ok(language)

\* Enrich.get_language_name; gs is the answer of gs.get_languages (not
\* guarded by a try)
get_language_name(language, gs) ==
    IF IsBlank(language) THEN Raise(500, "No language specified.")
    ELSE IF gs.k = "raise" THEN Unhandled
    ELSE IF language \in DOMAIN gs_languages
         THEN Ok(detected_prefix \o gs_languages[language])
    ELSE Ok(Unknown)

\* get_json without the translation test of lines 359-361
get_json_noTranslationTest(text, transl, detected) ==
    IF IsBlank(text) THEN Raise(500, "No text specified.")
    ELSE IF IsBlank(detected)
         THEN Raise(500, "Detected language is not valid.")
    ELSE IF ~(IsUtf8(text) /\ IsUtf8(transl) /\ IsUtf8(detected))
         THEN Unhandled
    ELSE Ok(None)

\* Enrich.get_json; the value is the dict json.dumps serialises
get_json(text, transl, detected) ==
    IF IsBlank(text) THEN Raise(500, "No text specified.")
    ELSE IF IsBlank(transl) THEN Raise(500, "No translation specified.")
    ELSE IF IsBlank(detected)
         THEN Raise(500, "Detected language is not valid.")
    ELSE IF ~(IsUtf8(text) /\ IsUtf8(transl) /\ IsUtf8(detected))
         THEN Unhandled
    ELSE Ok(None)

\* ------------------------------------------------------------------------
\* The decisions of Enrich.POST
\* ------------------------------------------------------------------------

\* lines 105-109: the declared source, lower-cased, or None when it is
\* absent or unsupported
NormalizeSource(source) ==
    IF source = None THEN None
    ELSE IF Lower(source) \in supported_languages THEN Lower(source)
    ELSE None

\* line 99: web.input(image={}) always yields an 'image' key
ImageInData(d) == TRUE

\* ValidateImage without the file name test of lines 118-120
ValidateImage_noFilenameTest(d) ==
    IF ~d.image.present THEN Unhandled
    ELSE IF Len(d.image.value) = 0
         THEN Raise(400, "No image to process. No value.")
    ELSE IF d.filetype = None THEN Raise(400, "No file-type specified.")
    ELSE IF StrRaises(d.filetype) THEN Unhandled
    ELSE IF Lower(d.filetype) \notin supported_filetypes
         THEN Raise(400, "No support for this filetype.")
    ELSE Ok(Lower(d.filetype))

\* lines 112-130: validation of the uploaded image; the value is the
\* lower-cased filetype
ValidateImage(d) ==
    IF ~d.image.present THEN Unhandled
    ELSE IF Len(d.image.value) = 0
         THEN Raise(400, "No image to process. No value.")
    ELSE IF Len(d.image.filename) = 0
         THEN Raise(400, "No image to process. No filename.")
    ELSE IF d.filetype = None THEN Raise(400, "No file-type specified.")
    ELSE IF StrRaises(d.filetype) THEN Unhandled
    ELSE IF Lower(d.filetype) \notin supported_filetypes
         THEN Raise(400, "No support for this filetype.")
    ELSE Ok(Lower(d.filetype))

\* str(uuid.uuid4()), abbreviated to one digit
UuidStr(id) == << 48 + id >>

\* the path without the identifier of line 133: one name for every upload
ImagePath_fixedName(id, ftype) == image_dir \o <<47>> \o <<48>> \o <<46>> \o ftype

\* lines 132-134, 144: image_dir + '/' + image_id + '.' + filetype
ImagePath(id, ftype) == image_dir \o <<47>> \o UuidStr(id) \o <<46>> \o ftype

\* lines 147-150: the hint of the first extraction pass
FirstHint(source) ==
    IF source = None THEN None ELSE supported_languages_tesseract[source]

\* NeedsRetry testing the translation set instead of the tesseract table
NeedsRetry_translationSet(source, detected) ==
    source = None /\ detected \in supported_languages

\* NeedsRetry firing only for codes outside the translation set
NeedsRetry_unsupportedOnly(source, detected) ==
    /\ source = None
    /\ detected \in DOMAIN supported_languages_tesseract
    /\ detected \notin supported_languages

\* line 154: the condition of the second extraction pass
NeedsRetry(source, detected) ==
    source = None /\ detected \in DOMAIN supported_languages_tesseract

\* NeedsName testing the tesseract table instead of the translation set
NeedsName_ocrTable(detected) ==
    detected \notin DOMAIN supported_languages_tesseract

\* lines 158, 164: the detected code is replaced by its display name
NeedsName(detected) == detected \notin supported_languages

\* ValidateTarget testing the tesseract table instead of the translation set
ValidateTarget_ocrTable(target) ==
    IF target = None
    THEN Raise(400, "No language to translate into specified.")
    ELSE IF StrRaises(target) THEN Unhandled
    ELSE IF Lower(target) \notin DOMAIN supported_languages_tesseract
         THEN Raise(400, "This target language is not supported.")
    ELSE Ok(Lower(target))

\* ValidateTarget without the membership test of lines 170-172
ValidateTarget_noMembershipTest(target) ==
    IF target = None
    THEN Raise(400, "No language to translate into specified.")
    ELSE IF StrRaises(target) THEN Unhandled
    ELSE Ok(Lower(target))

\* lines 167-172, 185-187: validation of the target; the value is the
\* lower-cased target
ValidateTarget(target) ==
    IF target = None
    THEN Raise(400, "No language to translate into specified.")
    ELSE IF StrRaises(target) THEN Unhandled
    ELSE IF Lower(target) \notin supported_languages
         THEN Raise(400, "This target language is not supported.")
    ELSE Ok(Lower(target))

\* ActiveText always taking the text extracted from the image
ActiveText_imageOnly(is_corrected, from_image, from_caller) == from_image

\* lines 174-183, 189-192: the text that is translated and returned
ActiveText(is_corrected, from_image, from_caller) ==
    IF is_corrected THEN from_caller ELSE from_image

\* TranslationSource falling back to the detected language
TranslationSource_guess(source, detected) ==
    IF source = None THEN detected ELSE source

\* lines 174-183: the source argument of get_translation (None: omitted)
TranslationSource(source, detected) == source

\* ------------------------------------------------------------------------
\* State
\* ------------------------------------------------------------------------

VARIABLES
    pc,               \* per request: the position in Enrich.POST
    data,             \* per request: the fields web.input returned
    text_from_image,  \* per request: locals of Enrich.POST ...
    source_lang,
    detected_lang,
    corrected_text,
    corrected,
    filetype,
    final_image_path,
    target_lang,
    translation,
    pending,          \* per request: the exception raised by the except
                      \* clause of line 140 while the finally clause runs
    response,         \* per request: the HTTP response
    calls,            \* per request: the calls made so far, with arguments,
                      \* the collaborator's answer and the result
    uploads,          \* the upload directory: path -> bytes of the file
    uuids             \* the identifiers uuid.uuid4() has handed out

locals ==
    <<text_from_image, source_lang, detected_lang, corrected_text, corrected,
      filetype, final_image_path, target_lang, translation, pending>>

vars ==
    <<pc, data, text_from_image, source_lang, detected_lang, corrected_text,
      corrected, filetype, final_image_path, target_lang, translation,
      pending, response, calls, uploads, uuids>>

Call(fn, args, ext, res) == [fn |-> fn, args |-> args, ext |-> ext, res |-> res]

\* the state of the slots when requests arrive: lines 92-99 have run for a
\* slot with a request, the other slots are idle
InitSlots(active, reqs) ==
    /\ \E d \in [active -> reqs] :
          data = [p \in Procs |-> IF p \in active THEN d[p] ELSE NoRequest]
    /\ pc = [p \in Procs |-> IF p \in active THEN "POST" ELSE "idle"]
    /\ text_from_image = [p \in Procs |-> None]
    /\ source_lang = [p \in Procs |-> None]
    /\ detected_lang = [p \in Procs |-> unk]
    /\ corrected_text = [p \in Procs |-> None]
    /\ corrected = [p \in Procs |-> FALSE]
    /\ filetype = [p \in Procs |-> None]
    /\ final_image_path = [p \in Procs |-> None]
    /\ target_lang = [p \in Procs |-> None]
    /\ translation = [p \in Procs |-> None]
    /\ pending = [p \in Procs |-> NoExc]
    /\ response = [p \in Procs |-> NoResponse]
    /\ calls = [p \in Procs |-> << >>]
    /\ uploads = << >>
    /\ uuids = {}

\* one request, every combination of fields
Init == InitSlots({1}, Requests)

\* ------------------------------------------------------------------------
\* Steps of Enrich.POST
\* ------------------------------------------------------------------------

\* the handler ends with an exception: web.py sends its status and message
Fail(p, r) ==
    /\ pc' = [pc EXCEPT ![p] = "done"]
    /\ response' = [response EXCEPT ![p] =
                       [status |-> r.status, msg |-> r.msg, body |-> NoBody]]

Goto(p, label) ==
    /\ pc' = [pc EXCEPT ![p] = label]
    /\ UNCHANGED response

Log(p, c) == calls' = [calls EXCEPT ![p] = Append(@, c)]

\* lines 101-111: decode the corrected text, normalise the source, select
\* the mode
Parse(p) ==
    LET d == data[p]
        has_text == d.text # None
    IN /\ pc[p] = "POST"
       /\ IF has_text /\ B64Raises(d.text)
          THEN /\ Fail(p, Unhandled)
               /\ UNCHANGED <<corrected_text, corrected, source_lang>>
          ELSE /\ corrected_text' = [corrected_text EXCEPT ![p] =
                      IF has_text THEN b64decode(d.text) ELSE None]
               /\ corrected' = [corrected EXCEPT ![p] = has_text]
               /\ IF d.source # None /\ StrRaises(d.source)
                  THEN /\ Fail(p, Unhandled)
                       /\ UNCHANGED source_lang
                  ELSE /\ source_lang' = [source_lang EXCEPT ![p] =
                              NormalizeSource(d.source)]
                       /\ Goto(p, IF ImageInData(d) /\ ~has_text THEN "validate"
                                  ELSE IF has_text THEN "detect_corrected"
                                  ELSE "target")
       /\ UNCHANGED <<data, text_from_image, detected_lang, filetype,
                      final_image_path, target_lang, translation, pending,
                      calls, uploads, uuids>>

\* the image validation preceded by the target validation of lines 167-172
\* and 185-187, so that a bad target is rejected before any work
Validate_targetFirst(p) ==
    LET t == ValidateTarget(data[p].target)
        r == IF t.ok THEN ValidateImage(data[p]) ELSE t
    IN /\ pc[p] = "validate"
       /\ IF r.ok
          THEN /\ filetype' = [filetype EXCEPT ![p] = r.val]
               /\ Goto(p, "store")
          ELSE /\ Fail(p, r)
               /\ UNCHANGED filetype
       /\ UNCHANGED <<data, text_from_image, source_lang, detected_lang,
                      corrected_text, corrected, final_image_path,
                      target_lang, translation, pending, calls, uploads,
                      uuids>>

\* lines 112-130: validate the image, its file name and the filetype
Validate(p) ==
    LET r == ValidateImage(data[p])
    IN /\ pc[p] = "validate"
       /\ IF r.ok
          THEN /\ filetype' = [filetype EXCEPT ![p] = r.val]
               /\ Goto(p, "store")
          ELSE /\ Fail(p, r)
               /\ UNCHANGED filetype
       /\ UNCHANGED <<data, text_from_image, source_lang, detected_lang,
                      corrected_text, corrected, final_image_path,
                      target_lang, translation, pending, calls, uploads,
                      uuids>>

\* what a failed or successful write leaves under the path
Stored(answer, bytes, path) ==
    IF answer = "failed_no_file" THEN uploads
    ELSE IF answer = "failed_truncated"
         THEN (path :> SubSeq(bytes, 1, Len(bytes) - 1)) @@ uploads
    ELSE (path :> bytes) @@ uploads

\* lines 132-145: draw the identifier and write the file; a failure raises
\* the 500 of line 142, which is pending while the finally clause runs
Store(p) ==
    /\ pc[p] = "store"
    /\ \E id \in UUIDs \ uuids, answer \in StoreAnswers :
         LET path == ImagePath(id, filetype[p])
             exc == IF answer = "stored" THEN NoExc
                    ELSE Raise(500, "Server: Could not store image.")
         IN /\ uuids' = uuids \cup {id}
            /\ uploads' = Stored(answer, data[p].image.value, path)
            /\ final_image_path' = [final_image_path EXCEPT ![p] = path]
            /\ pending' = [pending EXCEPT ![p] = exc]
            /\ Log(p, Call("write", <<path>>, [k |-> answer, v |-> None], exc))
    /\ Goto(p, "ocr1")
    /\ UNCHANGED <<data, text_from_image, source_lang, detected_lang,
                   corrected_text, corrected, filetype, target_lang,
                   translation>>

\* the answers Image.open and the engine can give for a path: a file that
\* does not exist cannot be opened
OcrAnswersFor(path) ==
    IF IsBlank(path) THEN {NotCalled}
    ELSE IF path \notin DOMAIN uploads THEN {[k |-> "open_raise", v |-> None]}
    ELSE OcrAnswers

\* a call of get_text from the finally clause: an exception it raises
\* replaces the pending one
Extract(p, hint, next) ==
    \E ocr \in OcrAnswersFor(final_image_path[p]) :
       LET r == get_text(final_image_path[p], hint, ocr)
       IN /\ Log(p, Call("get_text", <<final_image_path[p], hint>>, ocr, r))
          /\ IF r.ok
             THEN /\ text_from_image' = [text_from_image EXCEPT ![p] = r.val]
                  /\ Goto(p, next)
             ELSE /\ Fail(p, r)
                  /\ UNCHANGED text_from_image

\* lines 147-150: first extraction pass
Ocr1(p) ==
    /\ pc[p] = "ocr1"
    /\ Extract(p, FirstHint(source_lang[p]), "detect")
    /\ UNCHANGED <<data, source_lang, detected_lang, corrected_text,
                   corrected, filetype, final_image_path, target_lang,
                   translation, pending, uploads, uuids>>

\* the answers gs.detect can give for a text
DetectAnswersFor(text) == IF IsBlank(text) THEN {NotCalled} ELSE DetectAnswers

\* lines 152-154: detect the language of the extracted text
Detect(p) ==
    /\ pc[p] = "detect"
    /\ \E gs \in DetectAnswersFor(text_from_image[p]) :
         LET r == get_language(text_from_image[p], gs)
         IN /\ Log(p, Call("get_language", <<text_from_image[p]>>, gs, r))
            /\ IF r.ok
               THEN /\ detected_lang' = [detected_lang EXCEPT ![p] = r.val]
                    /\ Goto(p, IF NeedsRetry(source_lang[p], r.val)
                               THEN "ocr2" ELSE "fallback")
               ELSE /\ Fail(p, r)
                    /\ UNCHANGED detected_lang
    /\ UNCHANGED <<data, text_from_image, source_lang, corrected_text,
                   corrected, filetype, final_image_path, target_lang,
                   translation, pending, uploads, uuids>>

\* the second extraction pass followed by a second detection, on its text
Ocr2_redetect(p) ==
    /\ pc[p] = "ocr2"
    /\ Extract(p, supported_languages_tesseract[detected_lang[p]], "detect")
    /\ UNCHANGED <<data, source_lang, detected_lang, corrected_text,
                   corrected, filetype, final_image_path, target_lang,
                   translation, pending, uploads, uuids>>

\* lines 154-156: second extraction pass, with the detected language as hint
Ocr2(p) ==
    /\ pc[p] = "ocr2"
    /\ Extract(p, supported_languages_tesseract[detected_lang[p]], "fallback")
    /\ UNCHANGED <<data, source_lang, detected_lang, corrected_text,
                   corrected, filetype, final_image_path, target_lang,
                   translation, pending, uploads, uuids>>

\* lines 158-159 and 164-165: replace a code outside supported_languages by
\* its display name; exc is the exception that is re-raised when the
\* enclosing finally clause ends
DisplayName(p, exc) ==
    IF NeedsName(detected_lang[p])
    THEN \E gs \in (IF IsBlank(detected_lang[p]) THEN {NotCalled}
                    ELSE NameAnswers) :
           LET r == get_language_name(detected_lang[p], gs)
           IN /\ Log(p, Call("get_language_name", <<detected_lang[p]>>, gs, r))
              /\ IF r.ok
                 THEN /\ detected_lang' = [detected_lang EXCEPT ![p] = r.val]
                      /\ IF exc.ok THEN Goto(p, "target") ELSE Fail(p, exc)
                 ELSE /\ Fail(p, r)
                      /\ UNCHANGED detected_lang
    ELSE /\ UNCHANGED <<detected_lang, calls>>
         /\ IF exc.ok THEN Goto(p, "target") ELSE Fail(p, exc)

\* lines 158-159 and the end of the finally clause
Fallback(p) ==
    /\ pc[p] = "fallback"
    /\ DisplayName(p, pending[p])
    /\ UNCHANGED <<data, text_from_image, source_lang, corrected_text,
                   corrected, filetype, final_image_path, target_lang,
                   translation, pending, uploads, uuids>>

\* line 162: detect the language of the corrected text
DetectCorrected(p) ==
    /\ pc[p] = "detect_corrected"
    /\ \E gs \in DetectAnswersFor(corrected_text[p]) :
         LET r == get_language(corrected_text[p], gs)
         IN /\ Log(p, Call("get_language", <<corrected_text[p]>>, gs, r))
            /\ IF r.ok
               THEN /\ detected_lang' = [detected_lang EXCEPT ![p] = r.val]
                    /\ Goto(p, "fallback_corrected")
               ELSE /\ Fail(p, r)
                    /\ UNCHANGED detected_lang
    /\ UNCHANGED <<data, text_from_image, source_lang, corrected_text,
                   corrected, filetype, final_image_path, target_lang,
                   translation, pending, uploads, uuids>>

\* lines 164-165
FallbackCorrected(p) ==
    /\ pc[p] = "fallback_corrected"
    /\ DisplayName(p, NoExc)
    /\ UNCHANGED <<data, text_from_image, source_lang, corrected_text,
                   corrected, filetype, final_image_path, target_lang,
                   translation, pending, uploads, uuids>>

\* lines 167-172 and 185-187: validate the target
CheckTarget(p) ==
    LET r == ValidateTarget(data[p].target)
    IN /\ pc[p] = "target"
       /\ IF r.ok
          THEN /\ target_lang' = [target_lang EXCEPT ![p] = r.val]
               /\ Goto(p, "translate")
          ELSE /\ Fail(p, r)
               /\ UNCHANGED target_lang
       /\ UNCHANGED <<data, text_from_image, source_lang, detected_lang,
                      corrected_text, corrected, filetype, final_image_path,
                      translation, pending, calls, uploads, uuids>>

\* the answers gs.translate can give
TranslateAnswersFor(text, target) ==
    IF IsBlank(text) \/ IsBlank(target) THEN {NotCalled} ELSE TranslateAnswers

\* lines 174-183: translate the active text
Translate(p) ==
    LET text == ActiveText(corrected[p], text_from_image[p], corrected_text[p])
        src == TranslationSource(source_lang[p], detected_lang[p])
    IN /\ pc[p] = "translate"
       /\ \E gs \in TranslateAnswersFor(text, target_lang[p]) :
            LET r == get_translation(text, target_lang[p], src, gs)
            IN /\ Log(p, Call("get_translation",
                              <<text, target_lang[p], src>>, gs, r))
               /\ IF r.ok
                  THEN /\ translation' = [translation EXCEPT ![p] = r.val]
                       /\ Goto(p, "encode")
                  ELSE /\ Fail(p, r)
                       /\ UNCHANGED translation
       /\ UNCHANGED <<data, text_from_image, source_lang, detected_lang,
                      corrected_text, corrected, filetype, final_image_path,
                      target_lang, pending, uploads, uuids>>

\* lines 189-192: encode the response
Encode(p) ==
    LET text == ActiveText(corrected[p], text_from_image[p], corrected_text[p])
        r == get_json(text, translation[p], detected_lang[p])
    IN /\ pc[p] = "encode"
       /\ pc' = [pc EXCEPT ![p] = "done"]
       /\ response' = [response EXCEPT ![p] =
              IF r.ok
              THEN [status |-> 200, msg |-> "",
                    body |-> [detected |-> detected_lang[p], text |-> text,
                              translation |-> translation[p]]]
              ELSE [status |-> r.status, msg |-> r.msg, body |-> NoBody]]
       /\ UNCHANGED <<data, locals, calls, uploads, uuids>>

Next ==
    \E p \in Procs :
       \/ Parse(p)
       \/ Validate(p)
       \/ Store(p)
       \/ Ocr1(p)
       \/ Detect(p)
       \/ Ocr2(p)
       \/ Fallback(p)
       \/ DetectCorrected(p)
       \/ FallbackCorrected(p)
       \/ CheckTarget(p)
       \/ Translate(p)
       \/ Encode(p)

Spec == Init /\ [][Next]_vars

\* ------------------------------------------------------------------------
\* Vocabulary of the properties
\* ------------------------------------------------------------------------

Done(p) == pc[p] = "done"

\* positions in the log of request p of the calls of fn
CallsOf(p, fn) == {k \in 1 .. Len(calls[p]) : calls[p][k].fn = fn}

NthCall(p, fn, n) ==
    CHOOSE k \in CallsOf(p, fn) :
       Cardinality({j \in CallsOf(p, fn) : j <= k}) = n

NumCalls(p, fn) == Cardinality(CallsOf(p, fn))

\* the request carries corrected text / is an image-mode request
TextMode(p) == pc[p] # "idle" /\ data[p].text # None

ImageMode(p) == pc[p] # "idle" /\ data[p].text = None /\ data[p].image.present

\* the codes of the translation set and of the OCR-capable set, as the
\* specification lists them
TranslationCodes == {<<101, 110>>, <<100, 101>>, <<105, 116>>}

OcrCodes == TranslationCodes \cup {<<102, 114>>, <<101, 115>>, <<115, 118>>}

IsAscii(s) == \A k \in 1 .. Len(s) : s[k] <= 127

LowerCased(s) == [k \in 1 .. Len(s) |-> IF s[k] \in 65 .. 90 THEN s[k] + 32 ELSE s[k]]

\* a step before the target validation has failed in request p: decoding
\* the text, str() of the source, the image validation, or a call
EarlierStepFailed(p) ==
    \/ data[p].text # None /\ B64Raises(data[p].text)
    \/ data[p].source # None /\ ~IsAscii(data[p].source)
    \/ data[p].text = None /\ ~ValidateImage(data[p]).ok
    \/ \E k \in 1 .. Len(calls[p]) : ~calls[p][k].res.ok

\* ------------------------------------------------------------------------
\* C1
\* ------------------------------------------------------------------------

\* C1: in a request with a 'text' field, whatever its image fields, the
\* image is never validated, no file is written, get_text is never called,
\* and the text given to get_translation and returned as 'text' is the
\* base64-decoded corrected text.
C1_TextWins ==
    \A p \in Procs :
       TextMode(p) =>
          /\ pc[p] \notin {"validate", "store", "ocr1", "detect", "ocr2", "fallback"}
          /\ filetype[p] = None
          /\ NumCalls(p, "write") = 0
          /\ NumCalls(p, "get_text") = 0
          /\ DOMAIN uploads = {}
          /\ \A k \in CallsOf(p, "get_translation") :
                /\ ~B64Raises(data[p].text)
                /\ calls[p][k].args[1] = b64decode(data[p].text)
          /\ response[p].status = 200 =>
                response[p].body.text = b64decode(data[p].text)

\* a request with both a well-formed image and corrected text has succeeded
C1_Witness ==
    \E p \in Procs :
       /\ TextMode(p)
       /\ data[p].image.present /\ data[p].image.value = JpegBytes
       /\ data[p].filetype = jpg
       /\ response[p].status = 200
       /\ response[p].body.text = OcrHi

\* ------------------------------------------------------------------------
\* C2
\* ------------------------------------------------------------------------

\* the target is missing or is not literally one of en, de, it
TargetNotListed(p) ==
    pc[p] # "idle" /\ (data[p].target = None \/ data[p].target \notin TranslationCodes)

\* the target is missing or is ASCII and, lower-cased, none of en, de, it
TargetRejected(p) ==
    /\ pc[p] # "idle"
    /\ \/ data[p].target = None
       \/ /\ IsAscii(data[p].target)
          /\ LowerCased(data[p].target) \notin TranslationCodes

TargetMessages ==
    {"No language to translate into specified.",
     "This target language is not supported."}

C3_Original ==
    \A p \in Procs : TargetNotListed(p) => NumCalls(p, "get_translation") = 0

\* C3 as amended: get_translation is never called in a request whose target
\* is missing or, lower-cased, not one of en, de, it (the target is compared
\* after lower-casing, so 'DE' is accepted).
C3_NoTranslation ==
    \A p \in Procs :
       /\ pc[p] # "idle"
       /\ \/ data[p].target = None
          \/ LowerCased(data[p].target) \notin TranslationCodes
       => /\ NumCalls(p, "get_translation") = 0
          /\ pc[p] \notin {"translate", "encode"}
          /\ response[p].status # 200

\* a corrected-text request with target 'fr' reached the target validation
\* and was rejected there
C3_Witness ==
    \E p \in Procs :
       /\ Done(p) /\ TextMode(p) /\ data[p].target = fr
       /\ NumCalls(p, "get_language") = 1
       /\ response[p].msg = "This target language is not supported."

\* ------------------------------------------------------------------------
\* C4
\* ------------------------------------------------------------------------

\* the source the caller declared, when it names a supported language
DeclaredSource(p) ==
    IF data[p].source # None /\ IsAscii(data[p].source)
       /\ LowerCased(data[p].source) \in TranslationCodes
    THEN LowerCased(data[p].source)
    ELSE None

\* the first extraction pass and the detection on its text have succeeded
FirstPassDetected(p) ==
    /\ NumCalls(p, "get_text") >= 1
    /\ calls[p][NthCall(p, "get_text", 1)].res.ok
    /\ NumCalls(p, "get_language") >= 1
    /\ calls[p][NthCall(p, "get_language", 1)].res.ok

FirstGuess(p) == calls[p][NthCall(p, "get_language", 1)].res.val

\* C4: in image mode get_text is called at most twice.  The second call is
\* made exactly when no supported source was declared and the detector's
\* guess on the first-pass text is one of en, de, it, fr, es, sv; its hint
\* is the OCR identifier of the guess and its text replaces the first-pass
\* text as the text translated and returned.  With a supported source
\* declared, get_text is called exactly once, with the identifier of that
\* source as hint.
C4_RetryPass ==
    \A p \in Procs :
       ImageMode(p) =>
          /\ NumCalls(p, "get_text") <= 2
          /\ NumCalls(p, "get_text") = 2 =>
                /\ FirstPassDetected(p)
                /\ DeclaredSource(p) = None
                /\ FirstGuess(p) \in OcrCodes
                /\ calls[p][NthCall(p, "get_text", 1)].args[2] = None
                /\ calls[p][NthCall(p, "get_text", 2)].args
                      = << final_image_path[p],
                           supported_languages_tesseract[FirstGuess(p)] >>
                /\ NthCall(p, "get_text", 2) > NthCall(p, "get_language", 1)
                /\ LET second == calls[p][NthCall(p, "get_text", 2)].res
                   IN second.ok =>
                         /\ text_from_image[p] = second.val
                         /\ \A k \in CallsOf(p, "get_translation") :
                               calls[p][k].args[1] = second.val
                         /\ response[p].status = 200 =>
                               response[p].body.text = second.val
          /\ ( /\ FirstPassDetected(p)
               /\ DeclaredSource(p) = None
               /\ FirstGuess(p) \in OcrCodes
               /\ pc[p] # "ocr2" ) => NumCalls(p, "get_text") = 2
          /\ DeclaredSource(p) # None =>
                /\ NumCalls(p, "get_text") <= 1
                /\ \A k \in CallsOf(p, "get_text") :
                      calls[p][k].args[2]
                         = supported_languages_tesseract[DeclaredSource(p)]
                /\ ( NumCalls(p, "write") = 1 /\ pc[p] # "ocr1" ) =>
                      NumCalls(p, "get_text") = 1

\* the detector guessed 'fr' on the first-pass text 'Hi', the retry pass
\* returned 'Ha', and 'Ha' was translated and returned
C4_Witness ==
    \E p \in Procs :
       /\ ImageMode(p) /\ response[p].status = 200
       /\ NumCalls(p, "get_text") = 2
       /\ calls[p][NthCall(p, "get_text", 1)].res.val = OcrHi
       /\ FirstGuess(p) = fr
       /\ calls[p][NthCall(p, "get_text", 2)].args[2] = fra
       /\ response[p].body.text = OcrHa

\* ------------------------------------------------------------------------
\* C5
\* ------------------------------------------------------------------------

\* the scenario: a non-empty jpg image, filetype=jpg, target=de, no source,
\* no text; the first pass, without hint, returned non-empty text and the
\* detector guessed 'en'
C5_Scenario(p) ==
    /\ ImageMode(p)
    /\ data[p].image.value = JpegBytes /\ data[p].image.filename = FileName
    /\ data[p].filetype = jpg /\ data[p].target = de /\ data[p].source = None
    /\ FirstPassDetected(p)
    /\ calls[p][NthCall(p, "get_text", 1)].args[2] = None
    /\ calls[p][NthCall(p, "get_language", 1)].ext = [k |-> "code", v |-> en]

\* C5 as claimed: in the scenario no retry fires (get_text is called exactly
\* once), get_translation is called with the source omitted and target 'de',
\* and the 'detected' field is 'en'.
C5_Original ==
    \A p \in Procs :
       C5_Scenario(p) =>
          /\ NumCalls(p, "get_text") = 1
          /\ \A k \in CallsOf(p, "get_translation") :
                calls[p][k].args[2] = de /\ calls[p][k].args[3] = None
          /\ response[p].status = 200 => response[p].body.detected = en

\* C5 as amended: in the scenario the retry fires, get_text is called a
\* second time with hint 'eng'; when the image was stored and the second
\* pass returned non-empty text, get_translation is called with that text,
\* the source omitted and target 'de', and the 'detected' field of the
\* response is 'en'.
C5_RetryFires ==
    \A p \in Procs :
       C5_Scenario(p) /\ pc[p] # "ocr2" =>
          /\ NumCalls(p, "get_text") = 2
          /\ calls[p][NthCall(p, "get_text", 2)].args[2] = <<101, 110, 103>>
          /\ LET second == calls[p][NthCall(p, "get_text", 2)].res
                 stored == calls[p][NthCall(p, "write", 1)].res.ok
             IN /\ \A k \in CallsOf(p, "get_translation") :
                      calls[p][k].args = <<second.val, de, None>>
                /\ ( second.ok /\ stored /\ pc[p] \in {"encode", "done"} ) =>
                      NumCalls(p, "get_translation") = 1
                /\ response[p].status = 200 =>
                      /\ response[p].body.detected = en
                      /\ response[p].body.text = second.val

\* the scenario ended in a success response after two extraction passes
C5_Witness ==
    \E p \in Procs :
       /\ C5_Scenario(p)
       /\ NumCalls(p, "get_text") = 2
       /\ NumCalls(p, "get_translation") = 1
       /\ response[p].status = 200
       /\ response[p].body.detected = en

\* ------------------------------------------------------------------------
\* C6
\* ------------------------------------------------------------------------

\* non-empty corrected text with a source and a target among en, de, it
C6_Scenario(p) ==
    /\ TextMode(p)
    /\ ~B64Raises(data[p].text) /\ b64decode(data[p].text) # EmptyStr
    /\ data[p].source \in TranslationCodes
    /\ data[p].target \in TranslationCodes

\* the 'detected' field for a guess of the detector: the guess when it is
\* one of en, de, it, else 'detected:<name>', else 'Unknown'
DetectedField(guess) ==
    IF guess \in TranslationCodes THEN guess
    ELSE IF guess \in DOMAIN gs_languages
         THEN <<100, 101, 116, 101, 99, 116, 101, 100, 58>> \o gs_languages[guess]
    ELSE <<85, 110, 107, 110, 111, 119, 110>>

\* C6 as claimed: in the scenario get_translation is called with source=s
\* and a success response has 'detected' = s, whatever the detector guessed.
C6_Original ==
    \A p \in Procs :
       C6_Scenario(p) =>
          /\ \A k \in CallsOf(p, "get_translation") :
                calls[p][k].args[3] = data[p].source
          /\ response[p].status = 200 =>
                response[p].body.detected = data[p].source

\* C6 as amended: in the scenario get_translation is called with the
\* corrected text, target t and source s once detection and the display-name
\* lookup have succeeded, and a success response has the 'detected' field
\* derived from the detector's guess on the corrected text (the guess when it
\* is one of en, de, it, its display form otherwise), not from s.
C6_DetectedIsGuess ==
    \A p \in Procs :
       C6_Scenario(p) =>
          /\ \A k \in CallsOf(p, "get_translation") :
                calls[p][k].args
                   = <<b64decode(data[p].text), data[p].target, data[p].source>>
          /\ ( /\ pc[p] \in {"encode", "done"}
               /\ \A k \in 1 .. Len(calls[p]) :
                     calls[p][k].fn # "get_translation" => calls[p][k].res.ok )
             => NumCalls(p, "get_translation") = 1
          /\ response[p].status = 200 =>
                /\ NumCalls(p, "get_language") = 1
                /\ response[p].body.detected
                      = DetectedField(calls[p][NthCall(p, "get_language", 1)].res.val)

\* corrected text with source 'en' was answered with 'detected' = 'de'
C6_Witness ==
    \E p \in Procs :
       /\ C6_Scenario(p) /\ data[p].source = en /\ data[p].target = it
       /\ response[p].status = 200
       /\ calls[p][NthCall(p, "get_translation", 1)].args[3] = en
       /\ response[p].body.detected = de

\* ------------------------------------------------------------------------
\* C7
\* ------------------------------------------------------------------------

\* the OCR engine returned the empty string in a get_text call of request p
EngineReturnedEmpty(p) ==
    \E k \in CallsOf(p, "get_text") : calls[p][k].ext = [k |-> "text", v |-> << >>]

\* C7: once the OCR engine has returned an empty string in an extraction
\* pass, first or second, the request has ended with 404 (not with 400, 500
\* or a success response) and get_translation is not called.
C7_EmptyTextIs404 ==
    \A p \in Procs :
       EngineReturnedEmpty(p) =>
          /\ Done(p)
          /\ response[p].status = 404
          /\ response[p].body = NoBody
          /\ NumCalls(p, "get_translation") = 0

\* the retry pass returned an empty string after a first pass with text
C7_Witness ==
    \E p \in Procs :
       /\ NumCalls(p, "get_text") = 2
       /\ calls[p][NthCall(p, "get_text", 1)].res.ok
       /\ calls[p][NthCall(p, "get_text", 2)].ext = [k |-> "text", v |-> << >>]
       /\ response[p].status = 404

\* ------------------------------------------------------------------------
\* C8
\* ------------------------------------------------------------------------

\* writing the uploaded image failed in request p
StorageFailed(p) ==
    \E k \in CallsOf(p, "write") : ~calls[p][k].res.ok

\* C8 as claimed: a finished image-mode request whose image could not be
\* stored was answered with 500, whatever the OCR engine and the detection
\* service returned.
C8_StorageFailureIs500 ==
    \A p \in Procs : Done(p) /\ StorageFailed(p) => response[p].status = 500

\* ------------------------------------------------------------------------
\* C9
\* ------------------------------------------------------------------------

\* an image-mode request with an empty payload, an empty file name, no
\* filetype or a filetype other than 'jpg'
C9_InvalidAsClaimed(p) ==
    /\ ImageMode(p)
    /\ \/ data[p].image.value = << >>
       \/ data[p].image.filename = << >>
       \/ data[p].filetype = None
       \/ data[p].filetype # <<106, 112, 103>>

\* the same, with the filetype compared after lower-casing
C9_Invalid(p) ==
    /\ ImageMode(p)
    /\ \/ data[p].image.value = << >>
       \/ data[p].image.filename = << >>
       \/ data[p].filetype = None
       \/ LowerCased(data[p].filetype) # <<106, 112, 103>>

\* nothing was written and no collaborator was called in request p
NothingDone(p) ==
    /\ calls[p] = << >>
    /\ final_image_path[p] = None
    /\ DOMAIN uploads = {}
    /\ uuids = {}

C10_Original ==
    \A p \in Procs :
       \A k \in CallsOf(p, "get_translation") :
          calls[p][k].args[3] =
             IF data[p].source \in TranslationCodes THEN data[p].source ELSE None

\* C10 as amended: the source argument of every get_translation call is the
\* lower-cased declared source when that is one of en, de, it ('EN' is passed
\* as 'en'), and is omitted otherwise; the detector's guess is never passed.
C10_TranslationSource ==
    \A p \in Procs :
       \A k \in CallsOf(p, "get_translation") :
          calls[p][k].args[3] =
             IF data[p].source # None
                /\ LowerCased(data[p].source) \in TranslationCodes
             THEN LowerCased(data[p].source)
             ELSE None

\* after a retry pass triggered by the guess 'de', get_translation was
\* called with the source omitted
C10_Witness ==
    \E p \in Procs :
       /\ ImageMode(p)
       /\ NumCalls(p, "get_text") = 2
       /\ FirstGuess(p) = de
       /\ NumCalls(p, "get_translation") = 1
       /\ calls[p][NthCall(p, "get_translation", 1)].args[3] = None

\* ------------------------------------------------------------------------
\* C11
\* ------------------------------------------------------------------------

NonEmptyString(s) == s # None /\ Len(s) > 0

\* C11: a request has no response while it is handled and exactly one when
\* it has ended: a success response whose 'detected', 'text' and
\* 'translation' are all non-empty, or a failure with status 400, 404 or 500
\* and no body; an empty field at encoding time yields 500.
C11_OneOutcome ==
    \A p \in Procs :
       /\ ~Done(p) => response[p] = NoResponse
       /\ Done(p) =>
             \/ /\ response[p].status = 200
                /\ NonEmptyString(response[p].body.detected)
                /\ NonEmptyString(response[p].body.text)
                /\ NonEmptyString(response[p].body.translation)
                /\ \A k \in 1 .. Len(calls[p]) : calls[p][k].res.ok
             \/ /\ response[p].status \in {400, 404, 500}
                /\ response[p].body = NoBody
       /\ ( /\ Done(p)
            /\ \E k \in CallsOf(p, "get_translation") :
                  calls[p][k].res.ok /\ calls[p][k].res.val = << >> )
          => /\ response[p].status = 500
             /\ response[p].msg = "No translation specified."

\* the translator returned '' and the encoding failed with 500
C11_Witness ==
    \E p \in Procs :
       /\ Done(p) /\ ImageMode(p)
       /\ NumCalls(p, "get_translation") = 1
       /\ calls[p][NthCall(p, "get_translation", 1)].res = Ok(<< >>)
       /\ response[p].status = 500
       /\ response[p].msg = "No translation specified."

\* ------------------------------------------------------------------------
\* C12
\* ------------------------------------------------------------------------

\* s is 'detected:' followed by a non-empty name
IsDisplayName(s) ==
    /\ Len(s) > 9
    /\ SubSeq(s, 1, 9) = <<100, 101, 116, 101, 99, 116, 101, 100, 58>>

\* C12: in every success response, of an image-mode or a corrected-text
\* request, 'detected' is one of en, de, it, or 'detected:<name>', or
\* 'Unknown'; it is never a raw code outside en, de, it and never 'unk'.
C12_DetectedField ==
    \A p \in Procs :
       response[p].status = 200 =>
          /\ \/ response[p].body.detected \in TranslationCodes
             \/ IsDisplayName(response[p].body.detected)
             \/ response[p].body.detected = <<85, 110, 107, 110, 111, 119, 110>>
          /\ response[p].body.detected
                \notin {<<102, 114>>, <<101, 115>>, <<115, 118>>, <<106, 97>>,
                        <<120, 120>>, <<117, 110, 107>>}

\* an image-mode request whose text was guessed to be Swedish succeeded with
\* a display name, and so did a corrected-text request with no guess
C12_Witness ==
    \E p \in Procs :
       /\ response[p].status = 200
       /\ NumCalls(p, "get_language") = 1
       /\ \/ /\ ImageMode(p)
             /\ calls[p][NthCall(p, "get_language", 1)].res.val = sv
             /\ IsDisplayName(response[p].body.detected)
          \/ /\ TextMode(p)
             /\ calls[p][NthCall(p, "get_language", 1)].res.val = unk
             /\ response[p].body.detected = Unknown

\* ------------------------------------------------------------------------
\* C13
\* ------------------------------------------------------------------------

\* request p declares a source that is not one of en, de, it
SourceNotListed(p) ==
    /\ pc[p] # "idle"
    /\ data[p].source # None
    /\ data[p].source \notin TranslationCodes

\* the response of a request that ends before its first call, when it
\* carries no source: the text does not decode or the image is not valid
EarlyResponseWithoutSource(d) ==
    IF d.text # None THEN Unhandled ELSE ValidateImage(d)

\* C13 as claimed: a request whose declared source is not one of en, de, it
\* behaves as the same request without a source field: no source survives
\* the normalisation, the first extraction pass gets no hint, the retry
\* pass is decided as without a source, get_translation gets no source, and
\* the request ends before its first call only where the request without a
\* source does (undecodable text, invalid image), with the same response.
C13_SourceIgnored ==
    \A p \in Procs :
       SourceNotListed(p) =>
          /\ source_lang[p] = None
          /\ NumCalls(p, "get_text") >= 1 =>
                calls[p][NthCall(p, "get_text", 1)].args[2] = None
          /\ ( FirstPassDetected(p) /\ FirstGuess(p) \in OcrCodes
               /\ pc[p] # "ocr2" ) => NumCalls(p, "get_text") = 2
          /\ \A k \in CallsOf(p, "get_translation") : calls[p][k].args[3] = None
          /\ ( Done(p) /\ calls[p] = << >> ) =>
                /\ \/ data[p].text # None /\ B64Raises(data[p].text)
                   \/ data[p].text = None /\ ~ValidateImage(data[p]).ok
                /\ response[p].status = EarlyResponseWithoutSource(data[p]).status
                /\ response[p].msg = EarlyResponseWithoutSource(data[p]).msg

\* ------------------------------------------------------------------------
\* C14
\* ------------------------------------------------------------------------

\* the collaborator consulted in call c raised: Image.open, the OCR engine,
\* gs.detect, gs.get_languages or gs.translate
CollaboratorRaised(c) ==
    /\ c.fn \in {"get_text", "get_language", "get_language_name", "get_translation"}
    /\ c.ext.k \in {"open_raise", "engine_raise", "raise"}

\* C14: a call in which an external collaborator (image decoding, the OCR
\* engine, the detection service, the translation service) failed is the
\* last call of its request, and the request has ended with 500: the call
\* is not repeated and no collaborator is called after it.
C14_FailureIs500 ==
    \A p \in Procs :
       \A k \in 1 .. Len(calls[p]) :
          CollaboratorRaised(calls[p][k]) =>
             /\ k = Len(calls[p])
             /\ ~calls[p][k].res.ok /\ calls[p][k].res.status = 500
             /\ Done(p)
             /\ response[p].status = 500
             /\ response[p].body = NoBody

\* the OCR engine raised in the retry pass and the request ended with the
\* 500 of get_text
C14_Witness ==
    \E p \in Procs :
       /\ Done(p) /\ response[p].status = 500
       /\ NumCalls(p, "get_text") = 2
       /\ calls[p][NthCall(p, "get_text", 2)].ext.k = "engine_raise"
       /\ response[p].msg = "Could not extract text from image."

\* ------------------------------------------------------------------------
\* C15
\* ------------------------------------------------------------------------

\* C15 as claimed: in a request whose image could not be stored, get_text
\* and get_language are never called.
C15_StorageFailureEndsRequest ==
    \A p \in Procs :
       StorageFailed(p) =>
          /\ NumCalls(p, "get_text") = 0
          /\ NumCalls(p, "get_language") = 0

\* ------------------------------------------------------------------------
\* C16
\* ------------------------------------------------------------------------

\* the extraction and detection work of lines 132-159 is in the log of
\* request p, in order and complete: the write, the first pass, the
\* detection, the retry pass when line 154 asks for it
WorkDone(p) ==
    /\ NumCalls(p, "write") = 1
    /\ calls[p][1].fn = "write" /\ calls[p][1].res.ok
    /\ calls[p][1].args[1] \in DOMAIN uploads
    /\ Len(calls[p]) >= 3
    /\ calls[p][2].fn = "get_text" /\ calls[p][2].res.ok
    /\ calls[p][3].fn = "get_language" /\ calls[p][3].res.ok
    /\ NumCalls(p, "get_language") = 1
    /\ IF NeedsRetry(source_lang[p], calls[p][3].res.val)
       THEN /\ Len(calls[p]) >= 4
            /\ calls[p][4].fn = "get_text" /\ calls[p][4].res.ok
            /\ NumCalls(p, "get_text") = 2
       ELSE NumCalls(p, "get_text") = 1

\* C16: an image-mode request is rejected for its target only after the
\* image was stored and get_text and get_language (and the retry pass when
\* it applies) were called; and a finished image-mode request with a valid
\* image and a missing or unsupported target in which no earlier step
\* failed was rejected for its target, with that work in its log.
C16_TargetCheckedLast ==
    \A p \in Procs :
       ImageMode(p) =>
          /\ ( Done(p) /\ response[p].msg \in TargetMessages ) => WorkDone(p)
          /\ ( Done(p) /\ TargetRejected(p) /\ ~EarlierStepFailed(p) ) =>
                /\ response[p].status = 400
                /\ response[p].msg \in TargetMessages
                /\ WorkDone(p)
          /\ ( pc[p] \in {"validate", "store", "ocr1", "detect", "ocr2", "fallback"} ) =>
                /\ response[p] = NoResponse
                /\ target_lang[p] = None

\* a request with a valid image and the unsupported target 'fr' was
\* rejected after the write, both extraction passes and the detection
C16_Witness ==
    \E p \in Procs :
       /\ ImageMode(p) /\ Done(p)
       /\ data[p].target = fr
       /\ response[p].status = 400
       /\ response[p].msg = "This target language is not supported."
       /\ NumCalls(p, "write") = 1
       /\ NumCalls(p, "get_text") = 2
       /\ NumCalls(p, "get_language") = 1

\* ------------------------------------------------------------------------
\* C17
\* ------------------------------------------------------------------------

\* a request with neither an image nor corrected text, a supported target
\* and a source that str() accepts
NeitherImageNorText(p) ==
    /\ pc[p] # "idle"
    /\ ~data[p].image.present
    /\ data[p].text = None
    /\ data[p].target \in TranslationCodes
    /\ data[p].source # None => IsAscii(data[p].source)

\* C17 as claimed: a request with neither an image nor corrected text and a
\* supported target makes no write, no get_text and no get_language call
\* and never ends with 400 or 200; it ends with the 500 that get_translation
\* raises for the absent text, its only call.
C17_FailsAtTranslation ==
    \A p \in Procs :
       NeitherImageNorText(p) =>
          /\ NumCalls(p, "write") = 0
          /\ NumCalls(p, "get_text") = 0
          /\ NumCalls(p, "get_language") = 0
          /\ DOMAIN uploads = {}
          /\ Done(p) =>
                /\ response[p].status = 500
                /\ response[p].body = NoBody
                /\ NumCalls(p, "get_translation") = 1
                /\ calls[p][Len(calls[p])].fn = "get_translation"
                /\ calls[p][Len(calls[p])].args[1] = None
                /\ response[p].msg = "No text specified."

\* ------------------------------------------------------------------------
\* C18
\* ------------------------------------------------------------------------

\* the retry pass of request p has returned text
RetryPassed(p) ==
    /\ NumCalls(p, "get_text") = 2
    /\ calls[p][NthCall(p, "get_text", 2)].res.ok

\* C18: get_language is called at most once per request; in image mode its
\* argument is the text of the first get_text call and it precedes the
\* second get_text call; a success response after a retry pass has its
\* 'detected' field derived from the guess on the first-pass text, its
\* 'text' field equal to the second-pass text, and its 'translation' field
\* produced by get_translation from the second-pass text.
C18_DetectOnce ==
    \A p \in Procs :
       /\ NumCalls(p, "get_language") <= 1
       /\ ( ImageMode(p) /\ NumCalls(p, "get_language") = 1 ) =>
             /\ NumCalls(p, "get_text") >= 1
             /\ NthCall(p, "get_text", 1) < NthCall(p, "get_language", 1)
             /\ calls[p][NthCall(p, "get_language", 1)].args[1]
                   = calls[p][NthCall(p, "get_text", 1)].res.val
             /\ NumCalls(p, "get_text") = 2 =>
                   NthCall(p, "get_language", 1) < NthCall(p, "get_text", 2)
       /\ ( ImageMode(p) /\ RetryPassed(p) ) =>
             LET second == calls[p][NthCall(p, "get_text", 2)].res.val
             IN /\ text_from_image[p] = second
                /\ \A k \in CallsOf(p, "get_translation") :
                      calls[p][k].args[1] = second
                /\ response[p].status = 200 =>
                      /\ response[p].body.detected = DetectedField(FirstGuess(p))
                      /\ response[p].body.text = second
                      /\ NumCalls(p, "get_translation") = 1
                      /\ response[p].body.translation
                            = calls[p][NthCall(p, "get_translation", 1)].res.val

\* a success response after a retry pass that read another text than the
\* first pass: detection saw the first text, the response carries the second
C18_Witness ==
    \E p \in Procs :
       /\ ImageMode(p) /\ RetryPassed(p)
       /\ response[p].status = 200
       /\ calls[p][NthCall(p, "get_text", 1)].res.val
             # calls[p][NthCall(p, "get_text", 2)].res.val
       /\ calls[p][NthCall(p, "get_language", 1)].args[1]
             = calls[p][NthCall(p, "get_text", 1)].res.val
       /\ response[p].body.text = calls[p][NthCall(p, "get_text", 2)].res.val

\* ------------------------------------------------------------------------
\* Two requests handled at once
\* ------------------------------------------------------------------------

\* bytes of a second uploaded file
OtherBytes == <<255, 216, 254>>

\* an image-mode request without a declared source, so that the retry pass
\* can run
ImageRequest ==
    [image |-> [present |-> TRUE, value |-> JpegBytes, filename |-> FileName],
     filetype |-> jpg, text |-> None, source |-> None, target |-> en]

\* requests handled at the same time: ImageRequest, another image with a
\* declared source and an unsupported target, and corrected text
ConcRequests ==
    { ImageRequest,
      [image |-> [present |-> TRUE, value |-> OtherBytes, filename |-> FileName],
       filetype |-> jpg, text |-> None, source |-> de, target |-> fr],
      [image |-> NoImage, filetype |-> None, text |-> B64Hi,
       source |-> None, target |-> en] }

\* web.py handles each request in a thread of its own, with a new Enrich
\* object and its own locals: slots 1 and 2 hold requests, their steps
\* interleave.  Slot 1 holds ImageRequest and slot 2 one of the others, or
\* both slots hold the same one of the others.
InitConc ==
    /\ InitSlots({1, 2}, ConcRequests)
    /\ \/ data[1] = ImageRequest /\ data[2] # ImageRequest
       \/ data[1] # ImageRequest /\ data[2] = data[1]

SpecConc == InitConc /\ [][Next]_vars

\* ------------------------------------------------------------------------
\* C19
\* ------------------------------------------------------------------------

\* everything the handler of request p reads and writes but the upload
\* directory
Own(p) ==
    <<pc[p], data[p], text_from_image[p], source_lang[p], detected_lang[p],
      corrected_text[p], corrected[p], filetype[p], final_image_path[p],
      target_lang[p], translation[p], pending[p], response[p], calls[p]>>

\* what is stored under path f: the bytes, or None without a file
FileAt(f) == IF f \in DOMAIN uploads THEN uploads[f] ELSE None

\* the requests that have drawn a path have drawn different ones
PathsDistinct ==
    \A p, q \in Procs :
       ( p # q /\ final_image_path[p] # None /\ final_image_path[q] # None )
          => final_image_path[p] # final_image_path[q]

\* request p wrote to the path it drew, every get_text of p was given that
\* path, and the file under it holds bytes of p's own image
OwnFile(p) ==
    /\ \A k \in CallsOf(p, "write") : calls[p][k].args[1] = final_image_path[p]
    /\ \A k \in CallsOf(p, "get_text") :
          /\ calls[p][k].args[1] = final_image_path[p]
          /\ NumCalls(p, "write") = 1 /\ NthCall(p, "write", 1) < k
    /\ final_image_path[p] \in DOMAIN uploads =>
          LET answer == calls[p][NthCall(p, "write", 1)].ext.k
              bytes == data[p].image.value
          IN uploads[final_image_path[p]] =
                IF answer = "failed_truncated"
                THEN SubSeq(bytes, 1, Len(bytes) - 1) ELSE bytes

\* requests with the same fields whose collaborators gave the same answers
\* in the same order
SameRun(p, q) ==
    /\ data[p] = data[q]
    /\ Len(calls[p]) = Len(calls[q])
    /\ \A k \in 1 .. Len(calls[p]) :
          /\ calls[p][k].fn = calls[q][k].fn
          /\ calls[p][k].ext = calls[q][k].ext

\* a step leaves alone the requests that did not take it, and the file
\* each of them stored; no stored file is changed or removed
IsolatedStep ==
    /\ \A p \in Procs :
          pc'[p] = pc[p] =>
             /\ Own(p)' = Own(p)
             /\ FileAt(final_image_path[p])' = FileAt(final_image_path[p])
    /\ \A f \in DOMAIN uploads :
          f \in DOMAIN uploads' /\ uploads'[f] = uploads[f]
    /\ Cardinality({p \in Procs : pc'[p] # pc[p]}) = 1

\* C19: in every interleaving of requests, each image-mode request writes
\* to a path no other request uses, no step changes or removes a stored
\* file, each get_text call of a request is given the path that request
\* wrote and the file there holds its own bytes, a step of one request
\* changes nothing of another, and two finished requests with the same
\* fields and the same collaborator answers have the same response.
C19_Isolation ==
    [][ /\ IsolatedStep
        /\ PathsDistinct'
        /\ \A p \in Procs : OwnFile(p)'
        /\ \A p, q \in Procs :
              ( Done(p)' /\ Done(q)' /\ SameRun(p, q)' ) =>
                 response'[p] = response'[q] ]_vars

\* two image-mode requests with different images were handled at once: both
\* files are stored, both requests made their OCR calls and ended
\* differently
C19_Witness ==
    \E p, q \in Procs :
       /\ p # q /\ ImageMode(p) /\ ImageMode(q)
       /\ data[p].image.value # data[q].image.value
       /\ Done(p) /\ Done(q)
       /\ final_image_path[p] \in DOMAIN uploads
       /\ final_image_path[q] \in DOMAIN uploads
       /\ uploads[final_image_path[p]] = data[p].image.value
       /\ uploads[final_image_path[q]] = data[q].image.value
       /\ NumCalls(p, "get_text") = 2 /\ NumCalls(q, "get_text") = 1
       /\ response[p].status = 200 /\ response[q].status = 400

====
